---- MODULE Spec2Model ----
(***************************************************************************)
(* Normalisation and alias resolution of design tokens:                    *)
(*   resolveAliases + graphAliases   (specification Spec)                  *)
(*   groupFromNode + tokenFromNode   (specification SpecWalk)              *)
(*                                                                         *)
(* Strings that the code takes apart are kept as the sequence of their     *)
(* parts: a token id "a.b", a jsonID "#/a/b" and a $ref "#/a/b/$value" are *)
(* the sequences of their path segments.                                   *)
(***************************************************************************)
EXTENDS Integers, Sequences, FiniteSets, TLC

\* depth of resolveInner recursion at which the engine's call stack is full
MaxDepth == 4

----------------------------------------------------------------------------
\* optional values: undefined is <<>>, a defined x is <<x>>
None == <<>>
Some(x) == <<x>>
IsSome(m) == m # <<>>
The(m) == m[1]

\* JavaScript values. k is the typeof, s the text of a scalar, ref the parsed
\* path of an alias string "{a.b}" or the identity of an object.
Str(s) == [k |-> "string", s |-> s, ref |-> <<>>]
AliasStr(path) == [k |-> "string", s |-> "", ref |-> path]
Num(s) == [k |-> "number", s |-> s, ref |-> <<>>]
Obj(id) == [k |-> "object", s |-> "", ref |-> id]
Undefined == [k |-> "undefined", s |-> "", ref |-> <<>>]

\* ToBoolean
Truthy(v) ==
  CASE v.k = "string" -> v.s # "" \/ v.ref # <<>>
    [] v.k = "number" -> v.s # "0"
    [] v.k = "object" -> TRUE
    [] OTHER -> FALSE

isAlias(v) == v.k = "string" /\ v.ref # <<>>
parseAlias(v) == v.ref

\* {a.b} -> #/a/b/$value
aliasToRef(alias) == parseAlias(alias) \o <<"$value">>

\* index of the first "$value" segment at or after position from, 0 if none
RECURSIVE ValueIdx(_, _)
ValueIdx(ref, from) ==
  IF from > Len(ref) THEN 0
  ELSE IF ref[from] = "$value" THEN from
  ELSE ValueIdx(ref, from + 1)

\* ref.replace(/\/\$value\/?.*/, '')
getTokenRef(ref) ==
  LET i == ValueIdx(ref, 1) IN IF i = 0 THEN ref ELSE SubSeq(ref, 1, i - 1)

\* nextID.$ref.replace(/\/\$value$/, '')
StripValue(ref) ==
  IF Len(ref) > 0 /\ ref[Len(ref)] = "$value" THEN SubSeq(ref, 1, Len(ref) - 1) ELSE ref

\* subpath of a local pointer: the segments after "#/"
parseRef(ref) == ref

\* subpath.join('.').replace(/\.\$value.*$/, '') || undefined
refToTokenID(ref) ==
  LET sub == parseRef(ref)
      i == ValueIdx(sub, 2)
      id == IF i = 0 THEN sub ELSE SubSeq(sub, 1, i - 1)
  IN IF Len(sub) > 0 THEN Some(id) ELSE None

\* a.localeCompare(b, 'en-us', { numeric: true }) <= 0 on the joined segments
SegRank(s) ==
  CASE s = "$value" -> 0
    [] s = "a" -> 1
    [] s = "b" -> 2
    [] s = "c" -> 3
    [] s = "color" -> 4
    [] s = "offsetX" -> 5
    [] OTHER -> 6

RECURSIVE localeCompareLeq(_, _)
localeCompareLeq(p, q) ==
  IF p = <<>> THEN TRUE
  ELSE IF q = <<>> THEN FALSE
  ELSE IF SegRank(Head(p)) # SegRank(Head(q)) THEN SegRank(Head(p)) < SegRank(Head(q))
  ELSE localeCompareLeq(Tail(p), Tail(q))

localeLess(p, q) == localeCompareLeq(p, q) /\ p # q

InSeq(x, s) == \E i \in 1..Len(s) : s[i] = x

EXPECTED_NESTED_ALIAS ==
  [border |-> [color |-> <<"color">>, stroke |-> <<"strokeStyle">>, width |-> <<"dimension">>],
   gradient |-> [color |-> <<"color">>, position |-> <<"number">>],
   shadow |-> [color |-> <<"color">>, offsetX |-> <<"dimension">>, offsetY |-> <<"dimension">>,
               blur |-> <<"dimension">>, spread |-> <<"dimension">>, inset |-> <<"boolean">>],
   strokeStyle |-> [dashArray |-> <<"dimension">>],
   transition |-> [duration |-> <<"duration">>, delay |-> <<"duration">>,
                   timingFunction |-> <<"cubicBezier">>],
   typography |-> [fontFamily |-> <<"fontFamily">>, fontWeight |-> <<"fontWeight">>,
                   fontSize |-> <<"dimension">>, lineHeight |-> <<"dimension", "number">>,
                   letterSpacing |-> <<"dimension">>]]

\* EXPECTED_NESTED_ALIAS[type]?.[key], undefined as <<>>
NestedExpected(type, key) ==
  IF type \in DOMAIN EXPECTED_NESTED_ALIAS /\ key \in DOMAIN EXPECTED_NESTED_ALIAS[type]
  THEN EXPECTED_NESTED_ALIAS[type][key]
  ELSE <<>>

----------------------------------------------------------------------------
VARIABLES
  tokens,      \* TokenNormalizedSet: jsonID -> token
  heap,        \* the object values, by identity; a value Obj(id) refers to heap[id]
  modeRefMap,  \* mode -> entries [site, refChain] in insertion order
  diags,       \* what logger.error has been given, in order
  pc,          \* "mode" | "keys" | "inner" | "resolved" | "resolveThrew" |
               \* "graph" | "graphThrew" | "done"
  error,       \* the exception that ended the run, "" if none
  order,       \* Object.values(tokens): the iteration order of the token set
  ti, mi, ki,  \* token, mode and object-key position of resolveAliases (ki = 0: the whole value)
  alias,       \* resolveInner's alias argument
  refChain,    \* resolveInner's refChain
  resolvedID,  \* resolveInner's result
  gm, ge       \* mode and entry position of graphAliases

avars == <<tokens, heap, modeRefMap, diags, pc, error, order, ti, mi, ki, alias, refChain,
           resolvedID, gm, ge>>

VARIABLES
  doc,      \* the object nodes of the document in the order the walk enters them
  ignore,   \* Config['ignore']
  groups,   \* jsonID -> GroupNormalized
  wtokens,  \* the tokens tokenFromNode has returned, by jsonID
  wi,       \* the node the walk is at
  wpc       \* "walk" | "walkThrew" | "idle"

wvars == <<doc, ignore, groups, wtokens, wi, wpc>>

vars == <<avars, wvars>>

\* the walk is not running
WalkIdle ==
  /\ doc = <<>> /\ ignore = [deprecated |-> FALSE, tokens |-> None]
  /\ groups = <<>> /\ wtokens = <<>> /\ wi = 0 /\ wpc = "idle"

A == <<"a">>
B == <<"b">>
C == <<"c">>
Z == <<"z">>
TokenIDs == {A, B, C}
ModeNames == <<".", "dark", "light">>
ObjKeys == <<"color", "offsetX">>
AObj == <<"a", ".">>

\* per-mode state as tokenFromNode builds it, originalValue as tokenRawValuesFromNode reads it
ModeState(v) ==
  [value |-> v, originalValue |-> v, aliasOf |-> None, aliasChain |-> None,
   aliasedBy |-> None, dependencies |-> None, partialAliasOf |-> None]

Token(type, dot, dark, light) ==
  [type |-> type, value |-> dot,
   aliasOf |-> None, aliasChain |-> None, aliasedBy |-> None,
   dependencies |-> None, partialAliasOf |-> None,
   mode |-> [m \in {".", "dark", "light"} |->
               CASE m = "." -> Some(ModeState(dot))
                 [] m = "dark" -> IF IsSome(dark) THEN Some(ModeState(The(dark))) ELSE None
                 [] OTHER -> IF IsSome(light) THEN Some(ModeState(The(light))) ELSE None]]

\* The token sets the model is run on: three tokens a, b, c and an alias {z}
\* to a token that is not in the set. Values are scalars or one object with
\* scalar slots (no arrays, no string literal with a brace in it); a is the
\* only token that may hold an object.
ADecls ==
  {[type |-> "color", dot |-> v, color |-> Str("#f00")] :
      v \in {AliasStr(B), AliasStr(C), AliasStr(Z), Str("#f00")}}
  \cup {[type |-> "shadow", dot |-> Obj(AObj), color |-> s] :
      s \in {AliasStr(B), AliasStr(C), Str("#f00")}}
ADark == {None, Some(AliasStr(B)), Some(AliasStr(C))}
ALight == {None, Some(AliasStr(C))}
BDecls ==
  {[type |-> "color", dot |-> AliasStr(A)], [type |-> "color", dot |-> AliasStr(C)],
   [type |-> "color", dot |-> Str("#0f0")], [type |-> "color", dot |-> Num("0")],
   [type |-> "dimension", dot |-> Str("5px")], [type |-> "shadow", dot |-> AliasStr(A)]}
BDark == {None, Some(AliasStr(C)), Some(Str("#111")), Some(Num("0"))}
CDots == {Str("#00f"), Num("0")}
CDark == {None, Some(Str("#222")), Some(Num("0"))}
CLight == {None, Some(Str("#fff"))}
Orders == {<<A, B, C>>, <<C, B, A>>}

ModesOf(t) == SelectSeq(ModeNames, LAMBDA m : IsSome(tokens[t].mode[m]))
ModeOf(tok, m) == The(tok.mode[m])

CurTok == order[ti]
CurMode == ModesOf(CurTok)[mi]

\* logger.error(entry): the sink records the diagnostic and returns
LoggerError(log, message) ==
  Append(log, [message |-> message, token |-> CurTok, mode |-> CurMode, site |-> ki])

\* FinalValue without the assignment of the root $value
FinalValueModeOnly(toks, t, m, fv) ==
  IF Truthy(fv)
  THEN [toks EXCEPT ![t].mode[m] = Some([ModeOf(toks[t], m) EXCEPT !.value = fv])]
  ELSE toks

\* lines 502-509: keep a truthy result, then fill in the root $value in mode "."
FinalValue(toks, t, m, fv) ==
  LET t1 == IF Truthy(fv)
            THEN [toks EXCEPT ![t].mode[m] = Some([ModeOf(toks[t], m) EXCEPT !.value = fv])]
            ELSE toks
  IN IF m = "." THEN [t1 EXCEPT ![t].value = ModeOf(t1[t], m).value] ELSE t1

\* the two for loops of resolveAliases move on; after the last token the
\* caller hands the modeRefMap to graphAliases
NextMode ==
  IF mi < Len(ModesOf(CurTok)) THEN pc' = "mode" /\ mi' = mi + 1 /\ ti' = ti
  ELSE IF ti < Len(order) THEN pc' = "mode" /\ mi' = 1 /\ ti' = ti + 1
  ELSE pc' = "graph" /\ mi' = mi /\ ti' = ti

\* an exception leaves resolveAliases
Throw(e) == pc' = "resolveThrew" /\ error' = e

\* the expected types of the site being resolved
ExpectedTypes ==
  IF ki = 0
  THEN (IF tokens[CurTok].type # "" THEN <<tokens[CurTok].type>> ELSE <<>>)
  ELSE NestedExpected(tokens[CurTok].type, ObjKeys[ki])

\* path.join('/')
SitePath == CurTok \o <<"$value">> \o (IF ki = 0 THEN <<>> ELSE <<ObjKeys[ki]>>)

\* resolveAliases is entered with the tokens as tokenFromNode built them, the
\* originalValue of each mode filled in from tokenRawValuesFromNode, and a
\* modeRefMap that has an empty refMap for every mode
Init ==
  /\ \E a \in ADecls, ad \in ADark, al \in ALight, b \in BDecls, bd \in BDark,
        c \in CDots, cd \in CDark, cl \in CLight :
       /\ tokens = (A :> Token(a.type, a.dot, ad, al)) @@ (B :> Token(b.type, b.dot, bd, None))
                   @@ (C :> Token("color", c, cd, cl))
       /\ heap = (AObj :> [color |-> a.color, offsetX |-> Str("2px")])
  /\ order \in Orders
  /\ modeRefMap = [m \in {".", "dark", "light"} |-> <<>>]
  /\ diags = <<>>
  /\ pc = "mode"
  /\ error = ""
  /\ ti = 1 /\ mi = 1 /\ ki = 0
  /\ alias = Undefined
  /\ refChain = <<>>
  /\ resolvedID = <<>>
  /\ gm = 1 /\ ge = 1
  /\ WalkIdle

\* traverseAndResolve(token.mode[mode].$value, ...) at line 497, up to the
\* first alias it meets
TraverseAndResolve ==
  /\ pc = "mode"
  /\ LET v == ModeOf(tokens[CurTok], CurMode).value IN
       IF isAlias(v)
       THEN /\ pc' = "inner" /\ alias' = v /\ refChain' = <<>> /\ ki' = 0
            /\ UNCHANGED <<tokens, ti, mi>>
       ELSE IF v.k = "object" /\ ExpectedTypes # <<>>
               /\ ExpectedTypes[1] \in DOMAIN EXPECTED_NESTED_ALIAS
       THEN /\ pc' = "keys" /\ ki' = 1
            /\ UNCHANGED <<tokens, ti, mi, alias, refChain>>
       ELSE /\ tokens' = FinalValue(tokens, CurTok, CurMode, v)
            /\ NextMode
            /\ UNCHANGED <<ki, alias, refChain>>
  /\ UNCHANGED <<heap, modeRefMap, diags, error, order, resolvedID, gm, ge>>
  /\ UNCHANGED wvars

\* the loop over Object.keys(value) moves on; after the last key the object is
\* the final value
NextKey(toks) ==
  IF ki < Len(ObjKeys)
  THEN pc' = "keys" /\ ki' = ki + 1 /\ tokens' = toks /\ UNCHANGED <<ti, mi>>
  ELSE /\ tokens' = FinalValue(toks, CurTok, CurMode, ModeOf(toks[CurTok], CurMode).value)
       /\ ki' = 0
       /\ NextMode

\* one round of the loop at lines 460-469
TraverseKey ==
  /\ pc = "keys"
  /\ LET obj == ModeOf(tokens[CurTok], CurMode).value.ref
         v == heap[obj][ObjKeys[ki]]
     IN IF isAlias(v)
        THEN /\ pc' = "inner" /\ alias' = v /\ refChain' = <<>>
             /\ UNCHANGED <<tokens, ti, mi, ki>>
        ELSE /\ NextKey(tokens)
             /\ UNCHANGED <<alias, refChain>>
  /\ UNCHANGED <<heap, modeRefMap, diags, error, order, resolvedID, gm, ge>>
  /\ UNCHANGED wvars

\* one call of resolveInner(alias, refChain)
resolveInner ==
  /\ pc = "inner"
  /\ UNCHANGED <<tokens, heap, modeRefMap, order, ti, mi, ki, gm, ge>>
  /\ UNCHANGED wvars
  /\ IF Len(refChain) >= MaxDepth
     THEN \* no room for another frame
          /\ Throw("RangeError")
          /\ UNCHANGED <<diags, alias, refChain, resolvedID>>
     ELSE
       LET nextID == aliasToRef(alias)
           circular == InSeq(nextID, refChain)
           nextKey == StripValue(nextID)
           found == nextKey \in DOMAIN tokens
           d1 == IF circular THEN LoggerError(diags, "Circular alias detected.") ELSE diags
           d2 == IF ~found THEN LoggerError(d1, "Could not resolve alias.") ELSE d1
       IN /\ diags' = d2
          /\ refChain' = Append(refChain, nextID)
          /\ IF ~found \/ ~IsSome(tokens[nextKey].mode[CurMode])
             THEN \* nextToken or nextToken.mode[mode] is undefined at line 436
                  /\ Throw("TypeError")
                  /\ UNCHANGED <<alias, resolvedID>>
             ELSE IF isAlias(ModeOf(tokens[nextKey], CurMode).originalValue)
             THEN /\ alias' = ModeOf(tokens[nextKey], CurMode).originalValue
                  /\ UNCHANGED <<pc, error, resolvedID>>
             ELSE /\ pc' = "resolved"
                  /\ resolvedID' = nextKey
                  /\ UNCHANGED <<alias, error>>

\* tokens[resolvedID].mode[mode]?.$value || tokens[resolvedID].$value
ResolvedValue(toks, id, m) ==
  IF IsSome(toks[id].mode[m]) /\ Truthy(ModeOf(toks[id], m).value)
  THEN ModeOf(toks[id], m).value
  ELSE toks[id].value

\* lines 483-493, and the assignment of the result at its call site
ResolveSite ==
  /\ pc = "resolved"
  /\ diags' = IF ExpectedTypes # <<>> /\ ~InSeq(tokens[resolvedID].type, ExpectedTypes)
              THEN LoggerError(diags, "Cannot alias to $type")
              ELSE diags
  /\ modeRefMap' = [modeRefMap EXCEPT ![CurMode] =
                      Append(@, [site |-> SitePath, refChain |-> refChain])]
  /\ LET ret == ResolvedValue(tokens, resolvedID, CurMode) IN
       IF ki = 0
       THEN /\ tokens' = FinalValue(tokens, CurTok, CurMode, ret)
            /\ NextMode
            /\ UNCHANGED <<heap, ki>>
       ELSE /\ heap' = [heap EXCEPT ![ModeOf(tokens[CurTok], CurMode).value.ref][ObjKeys[ki]] = ret]
            /\ NextKey(tokens)
  /\ UNCHANGED <<error, order, alias, refChain, resolvedID, gm, ge>>
  /\ UNCHANGED wvars

----------------------------------------------------------------------------
\* graphAliases

GraphMode == ModeNames[gm]
GraphEntries == modeRefMap[GraphMode]

Last(s) == s[Len(s)]
Reverse(s) == [i \in 1..Len(s) |-> s[Len(s) + 1 - i]]

\* index of the last "$value" segment, 0 if none
RECURSIVE LastValueIdx(_, _)
LastValueIdx(ref, from) ==
  IF from = 0 THEN 0
  ELSE IF ref[from] = "$value" THEN from
  ELSE LastValueIdx(ref, from - 1)

\* jsonID.replace(/.*\/\$value\/?/, '').split('/').filter(Boolean)
PartialPath(site) ==
  LET i == LastValueIdx(site, Len(site))
  IN IF i = 0 THEN <<"#">> \o site ELSE SubSeq(site, i + 1, Len(site))

\* lines 233-239
Dependencies(toks, rootRef, chain) ==
  IF rootRef \notin DOMAIN toks THEN toks
  ELSE LET deps == IF IsSome(toks[rootRef].dependencies) THEN The(toks[rootRef].dependencies)
                   ELSE <<>>
           pushed == deps \o SelectSeq(chain, LAMBDA r : ~InSeq(r, deps))
       IN [toks EXCEPT ![rootRef].dependencies = Some(SortSeq(pushed, localeLess))]

\* lines 242-250
TopAlias(toks, site, rootRef, chain) ==
  LET isTopLevelAlias == Last(site) = "$value" \/ site \in DOMAIN toks
  IN IF isTopLevelAlias /\ rootRef \in DOMAIN toks
     THEN [toks EXCEPT ![rootRef].aliasOf = refToTokenID(Last(chain)),
                       ![rootRef].aliasChain =
                          Some([i \in 1..Len(chain) |-> The(refToTokenID(chain[i]))])]
     ELSE toks

\* line 257-261
IsPartial(toks, site, rootRef, m) ==
  /\ PartialPath(site) # <<>>
  /\ rootRef \in DOMAIN toks
  /\ IsSome(toks[rootRef].mode[m])
  /\ Truthy(ModeOf(toks[rootRef], m).value)
  /\ ModeOf(toks[rootRef], m).value.k = "object"

\* lines 264-266
InitPartial(toks, rootRef, m) ==
  IF IsSome(ModeOf(toks[rootRef], m).partialAliasOf) THEN toks
  ELSE [toks EXCEPT ![rootRef].mode[m] =
          Some([ModeOf(toks[rootRef], m) EXCEPT !.partialAliasOf = Some(<<>>)])]

\* the loop at lines 269-302 for the first segment of the sub-path. sourceNode
\* is the "$value" member of the mode's own value node, which a value without
\* a "$value" key does not have; partialAliasOf is the ROOT token's field.
PartialOutcome(toks, rootRef, m, partial, chain) ==
  LET node == heap[ModeOf(toks[rootRef], m).value.ref]
      key == Head(partial)
      hasSourceNode == "$value" \in DOMAIN node
      aliasedID == getTokenRef(Last(chain))
  IN IF key \in DOMAIN node /\ ~hasSourceNode THEN "TypeError"
     ELSE IF Len(partial) = 1 /\ aliasedID \notin DOMAIN toks THEN "logged"
     ELSE IF ~IsSome(toks[rootRef].partialAliasOf) THEN "TypeError"
     ELSE "set"

SetPartial(toks, rootRef, partial, chain) ==
  [toks EXCEPT ![rootRef].partialAliasOf =
     Some((Head(partial) :> The(refToTokenID(getTokenRef(Last(chain))))) @@ The(@))]

\* lines 319-325
RECURSIVE PushDownstream(_, _)
PushDownstream(by, upstream) ==
  IF upstream = <<>> THEN by
  ELSE LET downstream == The(refToTokenID(Head(upstream)))
       IN PushDownstream(
            IF InSeq(downstream, by) THEN by ELSE SortSeq(Append(by, downstream), localeLess),
            Tail(upstream))

\* lines 306-326
RECURSIVE AliasedBy(_, _, _)
AliasedBy(toks, refs, i) ==
  IF i > Len(refs) THEN toks
  ELSE LET baseRef == getTokenRef(refs[i])
           upstream == SubSeq(refs, i + 1, Len(refs))
       IN IF baseRef \notin DOMAIN toks THEN AliasedBy(toks, refs, i + 1)
          ELSE IF upstream = <<>> THEN toks
          ELSE AliasedBy(
                 [toks EXCEPT ![baseRef].aliasedBy =
                    Some(PushDownstream(IF IsSome(@) THEN The(@) ELSE <<>>, upstream))],
                 refs, i + 1)

\* lines 329-333
Promote(toks, site, m) ==
  [toks EXCEPT ![site].aliasChain = ModeOf(toks[site], m).aliasChain,
               ![site].aliasedBy = ModeOf(toks[site], m).aliasedBy,
               ![site].aliasOf = ModeOf(toks[site], m).aliasOf,
               ![site].dependencies = ModeOf(toks[site], m).dependencies,
               ![site].partialAliasOf = ModeOf(toks[site], m).partialAliasOf]

\* an exception leaves graphAliases
GraphThrow(e) == pc' = "graphThrew" /\ error' = e

\* one round of the loop over Object.entries(refMap), lines 226-335
GraphEntry ==
  /\ pc = "graph"
  /\ ge <= Len(GraphEntries)
  /\ LET site == GraphEntries[ge].site
         chain == GraphEntries[ge].refChain
         rootRef == getTokenRef(site)
         t1 == Dependencies(tokens, rootRef, chain)
         t2 == TopAlias(t1, site, rootRef, chain)
         partial == IsPartial(t2, site, rootRef, GraphMode)
         t3 == IF partial THEN InitPartial(t2, rootRef, GraphMode) ELSE t2
         outcome == IF partial
                    THEN PartialOutcome(t3, rootRef, GraphMode, PartialPath(site), chain)
                    ELSE "none"
         t4 == IF outcome = "set" THEN SetPartial(t3, rootRef, PartialPath(site), chain) ELSE t3
         t5 == AliasedBy(t4, Reverse(<<site>> \o chain), 1)
     IN IF chain = <<>>
        THEN ge' = ge + 1 /\ UNCHANGED <<tokens, diags, pc, error>>
        ELSE IF outcome = "TypeError"
        THEN tokens' = t3 /\ GraphThrow("TypeError") /\ UNCHANGED <<diags, ge>>
        ELSE
          /\ diags' = IF outcome = "logged"
                      THEN Append(diags, [message |-> "Invalid alias", token |-> rootRef,
                                          mode |-> GraphMode, site |-> 0])
                      ELSE diags
          /\ IF GraphMode = "." /\ site \notin DOMAIN t5
             THEN \* tokens[jsonID] is undefined at line 329
                  tokens' = t5 /\ GraphThrow("TypeError") /\ ge' = ge
             ELSE /\ tokens' = IF GraphMode = "." THEN Promote(t5, site, GraphMode) ELSE t5
                  /\ ge' = ge + 1
                  /\ UNCHANGED <<pc, error>>
  /\ UNCHANGED <<heap, modeRefMap, order, ti, mi, ki, alias, refChain, resolvedID, gm>>
  /\ UNCHANGED wvars

\* the loop over Object.keys(modeRefMap) moves on, or graphAliases returns
GraphNextMode ==
  /\ pc = "graph"
  /\ ge > Len(GraphEntries)
  /\ IF gm < Len(ModeNames)
     THEN gm' = gm + 1 /\ ge' = 1 /\ pc' = pc
     ELSE pc' = "done" /\ UNCHANGED <<gm, ge>>
  /\ UNCHANGED <<tokens, heap, modeRefMap, diags, error, order, ti, mi, ki, alias, refChain,
                 resolvedID>>
  /\ UNCHANGED wvars

Next ==
  \/ TraverseAndResolve
  \/ TraverseKey
  \/ resolveInner
  \/ ResolveSite
  \/ GraphEntry
  \/ GraphNextMode

Spec == Init /\ [][Next]_vars

----------------------------------------------------------------------------
\* groupFromNode and tokenFromNode, called by the document walk on each object
\* node, a group before the nodes below it. A path segment is the sequence of
\* its characters, so that a jsonID is a string of characters.

RECURSIVE JoinWith(_, _)
JoinWith(path, sep) ==
  IF path = <<>> THEN <<>>
  ELSE IF Len(path) = 1 THEN path[1]
  ELSE path[1] \o <<sep>> \o JoinWith(Tail(path), sep)

\* `#/${path.join('/')}`
JsonID(path) == <<"#", "/">> \o JoinWith(path, "/")
\* path.join('.')
DotID(path) == JoinWith(path, ".")
\* path.slice(0, -1)
Parent(path) == SubSeq(path, 1, Len(path) - 1)

\* String.prototype.startsWith
startsWith(str, prefix) ==
  Len(prefix) <= Len(str) /\ SubSeq(str, 1, Len(prefix)) = prefix

\* UTF-16 code unit order of the characters in use
CharRank(ch) ==
  CASE ch = "#" -> 35
    [] ch = "." -> 46
    [] ch = "/" -> 47
    [] ch = "c" -> 99
    [] ch = "n" -> 110
    [] ch = "s" -> 115
    [] OTHER -> 116

\* the order of Array.prototype.sort() without a comparator
RECURSIVE StringLess(_, _)
StringLess(p, q) ==
  IF q = <<>> THEN FALSE
  ELSE IF p = <<>> THEN TRUE
  ELSE IF Head(p) # Head(q) THEN CharRank(Head(p)) < CharRank(Head(q))
  ELSE StringLess(Tail(p), Tail(q))

\* the elements of a finite set of strings, sorted
RECURSIVE SortedKeys(_)
SortedKeys(S) ==
  IF S = {} THEN <<>>
  ELSE LET least == CHOOSE x \in S : \A y \in S \ {x} : StringLess(x, y)
       IN <<least>> \o SortedKeys(S \ {least})

\* a ?? b
Nullish(a, b) == IF IsSome(a) THEN a ELSE b

ColorSeg == <<"c">>
ColorsSeg == <<"c", "s">>
NestedSeg == <<"n">>
TokenSeg == <<"t">>

GroupNode(path, type, description, deprecated) ==
  [kind |-> "group", path |-> path, type |-> type, description |-> description,
   deprecated |-> deprecated, extensions |-> "none"]

\* extensions: "none" (no $extensions member), "nomode" ($extensions without a
\* mode member), "dark" ($extensions.mode = {dark: ...})
TokenNode(path, type, deprecated, extensions) ==
  [kind |-> "token", path |-> path, type |-> type, description |-> None,
   deprecated |-> deprecated, extensions |-> extensions]

\* lines 173-182
EmptyGroup(path) ==
  [id |-> DotID(path), deprecated |-> None, description |-> None, extensions |-> None,
   type |-> None, tokens |-> <<>>]

\* lines 185-194: every group whose jsonID the new jsonID starts with hands
\* down its properties, in sorted order
RECURSIVE Cascade(_, _, _, _)
Cascade(g, gs, jsonID, groupIDs) ==
  IF groupIDs = <<>> THEN g
  ELSE LET groupID == Head(groupIDs)
           isParentGroup == startsWith(jsonID, groupID) /\ groupID # jsonID
       IN Cascade(
            IF isParentGroup
            THEN [g EXCEPT !.deprecated = Nullish(gs[groupID].deprecated, @),
                           !.description = Nullish(gs[groupID].description, @),
                           !.type = Nullish(gs[groupID].type, @)]
            ELSE g,
            gs, jsonID, Tail(groupIDs))

\* lines 197-202
LocalOverride(g, node) ==
  [g EXCEPT !.deprecated = IF IsSome(node.deprecated) THEN node.deprecated ELSE @,
            !.description = IF IsSome(node.description) THEN node.description ELSE @,
            !.type = IF IsSome(node.type) THEN node.type ELSE @]

groupFromNode ==
  /\ wpc = "walk"
  /\ wi <= Len(doc)
  /\ doc[wi].kind = "group"
  /\ LET node == doc[wi]
         jsonID == JsonID(node.path)
         g0 == IF jsonID \in DOMAIN groups THEN groups ELSE (jsonID :> EmptyGroup(node.path)) @@ groups
         g1 == Cascade(g0[jsonID], g0, jsonID, SortedKeys(DOMAIN g0))
     IN groups' = [g0 EXCEPT ![jsonID] = LocalOverride(g1, node)]
  /\ wi' = wi + 1
  /\ UNCHANGED <<doc, ignore, wtokens, wpc>>
  /\ UNCHANGED avars

\* lines 47-50
RegisterToken(gs, groupID, id) ==
  IF groupID \in DOMAIN gs /\ ~InSeq(id, gs[groupID].tokens)
  THEN [gs EXCEPT ![groupID].tokens = SortSeq(Append(@, id), StringLess)]
  ELSE gs

\* line 56 with || in place of ??: an explicit false gives way to the group
InheritDeprecatedOr(node, group) ==
  IF IsSome(node.deprecated) /\ The(node.deprecated) THEN node.deprecated
  ELSE group.deprecated

\* line 56, originalToken.$deprecated ?? group.$deprecated ?? undefined
InheritDeprecated(node, group) ==
  Nullish(Nullish(node.deprecated, group.deprecated), None)

\* ignore.tokens && wcmatch(ignore.tokens)(token.id), for patterns without wildcards
IgnoredByName(id) == IsSome(ignore.tokens) /\ id \in The(ignore.tokens)

tokenFromNode ==
  /\ wpc = "walk"
  /\ wi <= Len(doc)
  /\ doc[wi].kind = "token"
  /\ LET node == doc[wi]
         jsonID == JsonID(node.path)
         id == DotID(node.path)
         groupID == JsonID(Parent(node.path))
         gs == RegisterToken(groups, groupID, id)
         group == gs[groupID]
         token == [id |-> id,
                   type |-> IF IsSome(node.type) THEN node.type ELSE group.type,
                   description |-> node.description,
                   deprecated |-> InheritDeprecated(node, group),
                   group |-> groupID,
                   mode |-> <<".">>]
         ignored == \/ (ignore.deprecated /\ IsSome(token.deprecated) /\ The(token.deprecated))
                    \/ IgnoredByName(id)
     IN /\ groups' = gs
        /\ IF ignored
           THEN wi' = wi + 1 /\ UNCHANGED <<wtokens, wpc>>
           ELSE IF node.extensions = "nomode"
           THEN \* Object.keys(undefined) at line 93
                wpc' = "walkThrew" /\ UNCHANGED <<wtokens, wi>>
           ELSE /\ wtokens' = (jsonID :> [token EXCEPT !.mode =
                                  IF node.extensions = "dark" THEN <<".", "dark">> ELSE @])
                              @@ wtokens
                /\ wi' = wi + 1
                /\ wpc' = wpc
  /\ UNCHANGED <<doc, ignore>>
  /\ UNCHANGED avars

\* the documents and configurations the walk is run on
RootTypes == {None, Some("dimension")}
RootDeprecated == {None, Some(TRUE)}
ColorTypes == {None, Some("color")}
ColorDescriptions == {None, Some("palette")}
ColorsTypes == {None, Some("number")}
ColorsDeprecated == {None, Some(FALSE)}
NestedTypes == {None, Some("shadow")}
TokenTypes == {None, Some("duration")}
TokenDeprecated == {None, Some(TRUE), Some(FALSE)}
TokenExtensions == {"none", "nomode", "dark"}
IgnoreTokens == {None, Some({DotID(<<ColorsSeg, TokenSeg>>)})}

Documents ==
  {LET root == GroupNode(<<>>, rt, None, rd)
       color == GroupNode(<<ColorSeg>>, ct, cdesc, None)
       colors == <<GroupNode(<<ColorsSeg>>, cst, None, csd),
                   TokenNode(<<ColorsSeg, TokenSeg>>, tt, td, te),
                   GroupNode(<<ColorsSeg, NestedSeg>>, nt, None, None),
                   TokenNode(<<ColorsSeg, NestedSeg, TokenSeg>>, None, None, "none")>>
   IN IF colorFirst THEN <<root, color>> \o colors ELSE <<root>> \o colors \o <<color>> :
   rt \in RootTypes, rd \in RootDeprecated, ct \in ColorTypes, cdesc \in ColorDescriptions,
   cst \in ColorsTypes, csd \in ColorsDeprecated, nt \in NestedTypes,
   tt \in TokenTypes, td \in TokenDeprecated, te \in TokenExtensions,
   colorFirst \in BOOLEAN}

\* resolveAliases and graphAliases are not running
AliasIdle ==
  /\ tokens = <<>> /\ heap = <<>> /\ modeRefMap = <<>> /\ diags = <<>>
  /\ pc = "idle" /\ error = "" /\ order = <<>>
  /\ ti = 0 /\ mi = 0 /\ ki = 0
  /\ alias = Undefined /\ refChain = <<>> /\ resolvedID = <<>>
  /\ gm = 0 /\ ge = 0

InitWalk ==
  /\ doc \in Documents
  /\ ignore \in [deprecated : BOOLEAN, tokens : IgnoreTokens]
  /\ groups = <<>>
  /\ wtokens = <<>>
  /\ wi = 1
  /\ wpc = "walk"
  /\ AliasIdle

NextWalk ==
  \/ groupFromNode
  \/ tokenFromNode

SpecWalk == InitWalk /\ [][NextWalk]_vars

----------------------------------------------------------------------------
\* what the documents say, read off the originalValue of each mode

Orig(t, m) == ModeOf(tokens[t], m).originalValue
HasMode(t, m) == t \in DOMAIN tokens /\ IsSome(tokens[t].mode[m])
IsWholeAlias(t, m) == HasMode(t, m) /\ isAlias(Orig(t, m))

\* the token ids an alias chain of mode m passes through after t, target last;
\* None when the chain leaves the token set or does not end within fuel hops
RECURSIVE Hops(_, _, _)
Hops(t, m, fuel) ==
  IF ~isAlias(Orig(t, m)) THEN Some(<<>>)
  ELSE LET u == parseAlias(Orig(t, m))
       IN IF fuel = 0 \/ ~HasMode(u, m) THEN None
          ELSE LET rest == Hops(u, m, fuel - 1)
               IN IF IsSome(rest) THEN Some(<<u>> \o The(rest)) ELSE None

Chain(t, m) == Hops(t, m, Cardinality(TokenIDs))
Resolvable(t, m) == IsWholeAlias(t, m) /\ IsSome(Chain(t, m))
Terminal(t, m) == Last(The(Chain(t, m)))

ResolveReturned == pc \in {"graph", "graphThrew", "done"}
GraphEnded == pc \in {"graphThrew", "done"}
Logged(message) == \E i \in 1..Len(diags) : diags[i].message = message
NoDuplicates(s) == \A i, j \in 1..Len(s) : s[i] = s[j] => i = j

\* C1: with a.$value = "{b}" and b.$value = "{a}" and a logger that returns,
\* resolveAliases ends without exhausting the stack, has reported "Circular
\* alias detected." when it has ended, and the chain it walks never takes in a
\* ref that it already holds.
C1_CycleRejection ==
  (Orig(A, ".") = AliasStr(B) /\ Orig(B, ".") = AliasStr(A)) =>
     /\ error # "RangeError"
     /\ NoDuplicates(refChain)
     /\ (pc \in {"resolveThrew", "graph", "graphThrew", "done"} =>
           Logged("Circular alias detected."))

\* C2: once resolveAliases has returned, a token whose mode-"." value is an
\* alias whose chain ends at a token of the same $type with a truthy value has
\* that token's value as its mode-"." $value, and its root $value is the same.
C2_ResolvedValue ==
  ResolveReturned =>
    \A t \in TokenIDs :
      (/\ Resolvable(t, ".")
       /\ tokens[Terminal(t, ".")].type = tokens[t].type
       /\ Truthy(Orig(Terminal(t, "."), "."))) =>
         /\ ModeOf(tokens[t], ".").value = ModeOf(tokens[Terminal(t, ".")], ".").value
         /\ tokens[t].value = ModeOf(tokens[t], ".").value

\* a -> b -> c has been resolved: a holds c's string
C2_Witness ==
  /\ ResolveReturned
  /\ Orig(A, ".") = AliasStr(B) /\ Orig(B, ".") = AliasStr(C)
  /\ Orig(C, ".") = Str("#00f")
  /\ tokens[A].value = Str("#00f")

\* C3: once resolveAliases and then graphAliases have run, every token that is
\* a whole-value alias in mode "." has the ids of its hops as aliasChain and
\* the last of them as aliasOf, all of them tokens of the set.
C3_ChainIntegrity ==
  (GraphEnded /\ \A t \in TokenIDs : IsWholeAlias(t, ".") => Resolvable(t, ".")) =>
    \A t \in TokenIDs :
      IsWholeAlias(t, ".") =>
        /\ tokens[t].aliasChain = Some(The(Chain(t, ".")))
        /\ tokens[t].aliasOf = Some(Terminal(t, "."))
        /\ \A i \in 1..Len(The(Chain(t, "."))) : The(Chain(t, "."))[i] \in DOMAIN tokens

AliasedByOf(t) == IF IsSome(tokens[t].aliasedBy) THEN The(tokens[t].aliasedBy) ELSE <<>>
AliasChainOf(t) == IF IsSome(tokens[t].aliasChain) THEN The(tokens[t].aliasChain) ELSE <<>>

\* C4: once graphAliases has gone through every entry of the modeRefMap, u is
\* in t.aliasedBy exactly when t is in u.aliasChain.
C4_ReverseLink ==
  pc = "done" =>
    \A t, u \in TokenIDs : InSeq(u, AliasedByOf(t)) <=> InSeq(t, AliasChainOf(u))

\* C5: an alias to a token that is not in the set is reported and nothing is
\* thrown; the aliasing token keeps its value and gets no modeRefMap entry.
C5_UnresolvedAlias ==
  \A i \in 1..Len(diags) :
    diags[i].message = "Could not resolve alias." =>
      /\ pc # "resolveThrew"
      /\ ModeOf(tokens[diags[i].token], diags[i].mode).value = Orig(diags[i].token, diags[i].mode)
      /\ \A j \in 1..Len(modeRefMap[diags[i].mode]) :
           getTokenRef(modeRefMap[diags[i].mode][j].site) # diags[i].token

\* C6: a whole-value alias site whose terminal token has a $type outside the
\* expected types is reported once, keeps its value, and has its refChain
\* recorded in the modeRefMap.
C6_TypeMismatch ==
  \A i \in 1..Len(diags) :
    (diags[i].message = "Cannot alias to $type" /\ diags[i].site = 0) =>
      /\ \A j \in 1..Len(diags) : diags[j] = diags[i] => j = i
      /\ ModeOf(tokens[diags[i].token], diags[i].mode).value = Orig(diags[i].token, diags[i].mode)
      /\ \E j \in 1..Len(modeRefMap[diags[i].mode]) :
           modeRefMap[diags[i].mode][j].site = diags[i].token \o <<"$value">>

\* C7: a mode m other than "." whose value is an alias to a token u gets u's
\* mode-m $value when u declares m and u's root $value when it does not, and
\* in the second case nothing is thrown and nothing is reported.
C7_CrossModeFallback ==
  \A t \in TokenIDs : \A m \in {"dark", "light"} :
    (/\ HasMode(t, m) /\ isAlias(Orig(t, m))
     /\ parseAlias(Orig(t, m)) \in DOMAIN tokens
     /\ (HasMode(parseAlias(Orig(t, m)), m) => ~isAlias(Orig(parseAlias(Orig(t, m)), m)))) =>
       LET u == parseAlias(Orig(t, m)) IN
         /\ (pc = "resolveThrew" /\ CurTok = t /\ CurMode = m) => HasMode(u, m)
         /\ ResolveReturned =>
              IF HasMode(u, m)
              THEN ModeOf(tokens[t], m).value = ModeOf(tokens[u], m).value
              ELSE ModeOf(tokens[t], m).value = tokens[u].value /\ diags = <<>>

\* C8: a shadow token whose $value holds an alias in its color slot only, the
\* only alias of the document, comes out of resolveAliases and graphAliases
\* with partialAliasOf = {color: <target>} and without aliasOf.
C8_PartialAlias ==
  (/\ GraphEnded
   /\ tokens[A].type = "shadow" /\ Orig(A, ".") = Obj(AObj)
   /\ \E e \in 1..Len(modeRefMap["."]) : modeRefMap["."][e].site = <<"a", "$value", "color">>
   /\ \A t \in TokenIDs : \A m \in {".", "dark", "light"} : HasMode(t, m) => ~isAlias(Orig(t, m))) =>
     /\ pc = "done"
     /\ tokens[A].partialAliasOf = Some([color |-> C])
     /\ tokens[A].aliasOf = None

\* C10: once graphAliases has returned, the root alias fields of a token are
\* those of its mode ".", and a token whose mode-"." value is a literal has no
\* root aliasOf or aliasChain, whatever its other modes alias.
C10_ModeIsolation ==
  pc = "done" =>
    \A t \in TokenIDs :
      /\ tokens[t].aliasOf = ModeOf(tokens[t], ".").aliasOf
      /\ tokens[t].aliasChain = ModeOf(tokens[t], ".").aliasChain
      /\ tokens[t].aliasedBy = ModeOf(tokens[t], ".").aliasedBy
      /\ tokens[t].dependencies = ModeOf(tokens[t], ".").dependencies
      /\ tokens[t].partialAliasOf = ModeOf(tokens[t], ".").partialAliasOf
      /\ (Orig(t, ".").k # "object" /\ ~isAlias(Orig(t, ".")) =>
            tokens[t].aliasOf = None /\ tokens[t].aliasChain = None)

----------------------------------------------------------------------------
\* what the document says about a path, read off its nodes

NodeAt(path) == doc[CHOOSE i \in 1..Len(doc) : doc[i].path = path]

\* the $type declared nearest to a group path, on the path itself or above it
RECURSIVE NearestType(_)
NearestType(path) ==
  IF IsSome(NodeAt(path).type) \/ path = <<>> THEN NodeAt(path).type
  ELSE NearestType(Parent(path))

\* C9: every indexed group other than the root has, for $type, $description
\* and $deprecated, its own declaration or else what its parent in the path
\* tree has, and a token without a $type of its own has the $type declared
\* nearest above it on its path.
C9_GroupCascade ==
  \A i \in 1..Len(doc) :
    LET node == doc[i]
        jsonID == JsonID(node.path)
        parentID == JsonID(Parent(node.path))
    IN /\ (node.kind = "group" /\ node.path # <<>> /\ jsonID \in DOMAIN groups) =>
            /\ groups[jsonID].type = Nullish(node.type, groups[parentID].type)
            /\ groups[jsonID].description = Nullish(node.description, groups[parentID].description)
            /\ groups[jsonID].deprecated = Nullish(node.deprecated, groups[parentID].deprecated)
       /\ (node.kind = "token" /\ jsonID \in DOMAIN wtokens /\ ~IsSome(node.type)) =>
            wtokens[jsonID].type = NearestType(Parent(node.path))

----------------------------------------------------------------------------
\* the token nodes of the document

TokenNodes == {i \in 1..Len(doc) : doc[i].kind = "token"}

\* the mode names a token node declares under $extensions.mode
DeclaredModes(node) == IF node.extensions = "dark" THEN <<".", "dark">> ELSE <<".">>

\* C11: tokenFromNode returns normally for every token node, those whose
\* $extensions has no mode member and those without $extensions included, and
\* the mode keys of a token it produced are "." followed by the names the node
\* declares under $extensions.mode.
C11_ModeExpansion ==
  /\ wpc # "walkThrew"
  /\ \A i \in TokenNodes :
       JsonID(doc[i].path) \in DOMAIN wtokens =>
         wtokens[JsonID(doc[i].path)].mode = DeclaredModes(doc[i])

----------------------------------------------------------------------------
\* C12: once resolveAliases has returned, a whole-value alias of any mode
\* whose chain ends at a token of the same $type holding 0 in that mode has
\* that 0 as its mode value, and as its root $value in mode ".", in place of
\* the alias string.
C12_FalsyResolved ==
  ResolveReturned =>
    \A t \in TokenIDs : \A m \in {".", "dark", "light"} :
      (/\ Resolvable(t, m)
       /\ tokens[Terminal(t, m)].type = tokens[t].type
       /\ ~Truthy(Orig(Terminal(t, m), m))) =>
         /\ ModeOf(tokens[t], m).value = Orig(Terminal(t, m), m)
         /\ (m = ".") => tokens[t].value = Orig(Terminal(t, m), m)

----------------------------------------------------------------------------
\* C13: a token node with $deprecated: false of its own, whatever the groups
\* above it declare, is not dropped on account of ignore.deprecated once
\* tokenFromNode has returned for it, and the token produced for it has
\* $deprecated false, neither true nor absent; the token produced for a node
\* without a $deprecated of its own has the $deprecated of its group.
C13_DeprecatedOverride ==
  \A i \in TokenNodes :
    LET node == doc[i]
        jsonID == JsonID(node.path)
        groupID == JsonID(Parent(node.path))
    IN /\ (node.deprecated = Some(FALSE) /\ wi > i /\ ~IgnoredByName(DotID(node.path))) =>
            jsonID \in DOMAIN wtokens
       /\ (node.deprecated = Some(FALSE) /\ jsonID \in DOMAIN wtokens) =>
            wtokens[jsonID].deprecated = Some(FALSE)
       /\ (node.deprecated = None /\ jsonID \in DOMAIN wtokens) =>
            wtokens[jsonID].deprecated = groups[groupID].deprecated

\* under ignore.deprecated, colors.t with $deprecated: false has been produced
\* below a group that is deprecated by cascade from the root
C13_Witness ==
  /\ ignore.deprecated
  /\ wpc = "walk" /\ wi > Len(doc)
  /\ NodeAt(<<>>).deprecated = Some(TRUE)
  /\ NodeAt(<<ColorsSeg, TokenSeg>>).deprecated = Some(FALSE)
  /\ JsonID(<<ColorsSeg, TokenSeg>>) \in DOMAIN wtokens
  /\ groups[JsonID(<<ColorsSeg>>)].deprecated = Some(TRUE)
  /\ wtokens[JsonID(<<ColorsSeg, TokenSeg>>)].deprecated = Some(FALSE)

----------------------------------------------------------------------------
\* what resolveAliases leaves in mode m of t when every token that t's aliases
\* lead to has been processed before t: the value of the chain's last token in
\* mode m, or that token's resolved root $value when the mode value is falsy,
\* kept when truthy
RECURSIVE TargetsFirstValue(_, _)
TargetsFirstValue(t, m) ==
  IF ~isAlias(Orig(t, m)) THEN Orig(t, m)
  ELSE LET u == Terminal(t, m)
           ret == IF Truthy(Orig(u, m)) THEN Orig(u, m) ELSE TargetsFirstValue(u, ".")
       IN IF Truthy(ret) THEN ret ELSE Orig(t, m)

\* every whole-value alias of every mode has a chain that ends within the
\* token set, at a token of the alias's own $type
AliasesSound ==
  \A t \in TokenIDs : \A m \in {".", "dark", "light"} :
    IsWholeAlias(t, m) =>
      Resolvable(t, m) /\ tokens[Terminal(t, m)].type = tokens[t].type

\* C14: when every alias is resolvable, acyclic and type-compatible, so that
\* resolveAliases returns without a diagnostic, every mode value and root
\* $value it leaves is the one it leaves when the alias targets are processed
\* first, whatever the iteration order was, and an alias inside a composite
\* value has been replaced by the value of the token its chain ends at.
C14_OrderIndependence ==
  (ResolveReturned /\ diags = <<>> /\ AliasesSound) =>
    /\ \A t \in TokenIDs :
         /\ tokens[t].value = TargetsFirstValue(t, ".")
         /\ \A m \in {".", "dark", "light"} :
              HasMode(t, m) => ModeOf(tokens[t], m).value = TargetsFirstValue(t, m)
    /\ \A i \in 1..Len(modeRefMap["."]) :
         LET e == modeRefMap["."][i] IN
           e.site = A \o <<"$value", "color">> =>
             heap[AObj].color = Orig(StripValue(Last(e.refChain)), ".")

====
